---- MODULE Spec2Model ----
(***************************************************************************)
(* Model of crateful's synchronisation engine: Cache::refresh and          *)
(* Cache::update (src/registry/cache.rs) over the Index adapter             *)
(* (src/registry/index/mod.rs), with the artifact tree as a set of          *)
(* directory paths and a map from file paths to SHA-256 digests.            *)
(* Spec runs sync and verify over the artifact tree, with each repository   *)
(* operation as one step; IndexSpec runs sync at the granularity of the     *)
(* repository operations, over the blobs of the index and the mutex;         *)
(* CallSpec applies Crate::prefix, Configuration::locate, the diff engine    *)
(* and the start of the prune once to arguments drawn from bounded sets.     *)
(***************************************************************************)
EXTENDS Integers, Sequences, FiniteSets, TLC

\* ------------------------------------------------------------------ bounds
MaxJobs == 2
MaxRuns == 2
MaxFaults == 1

\* ------------------------------------------------------------ data model
None == "none"

NewCrate(n, v, c) == [name |-> n, version |-> v, checksum |-> c]

\* Crate::key
key(c) == [name |-> c.name, version |-> c.version]

NewChange(c, k) == [on |-> c, kind |-> k]

\* The snapshots of the index repository: one package file per crate name.
Commits == {"c0", "c1", "c2"}

Later(c) == CASE c = "c0" -> {"c1", "c2"} [] c = "c1" -> {"c2"} [] OTHER -> {}

Tree(c) ==
    CASE c = "c0" -> ("1/a" :> {NewCrate("a", "1", "x"), NewCrate("a", "2", "x")})
      [] c = "c1" -> ("1/a" :> {NewCrate("a", "1", "y")}) @@
                     ("1/b" :> {NewCrate("b", "1", "x")})
      [] OTHER    -> ("1/b" :> {NewCrate("b", "1", "y")})

\* Index::packages, flattened by Package::into_crates
packages(c) == UNION {Tree(c)[p] : p \in DOMAIN Tree(c)}

\* git2 diff_tree_to_tree: one delta per path whose blob differs
tree_diff(old, new) ==
    {[path |-> p,
      status |-> IF p \notin DOMAIN Tree(old) THEN "Added"
                 ELSE IF p \notin DOMAIN Tree(new) THEN "Deleted"
                 ELSE "Modified"] :
        p \in {q \in DOMAIN Tree(old) \cup DOMAIN Tree(new) :
                  \/ q \notin DOMAIN Tree(old)
                  \/ q \notin DOMAIN Tree(new)
                  \/ Tree(old)[q] # Tree(new)[q]}}

\* changes_from_package_trees, for one delta
DeltaChanges(old, new, d) ==
    CASE d.status = "Added" ->
            {NewChange(c, "Added") : c \in Tree(new)[d.path]}
      [] d.status = "Deleted" ->
            {NewChange(c, "Removed") : c \in Tree(old)[d.path]}
      [] OTHER ->
            LET before == Tree(old)[d.path]
                after == Tree(new)[d.path]
                Has(s, c) == \E e \in s : key(e) = key(c)
            IN  {NewChange(a, "Modified") :
                    a \in {e \in after : \E b \in before :
                              key(b) = key(e) /\ b.checksum # e.checksum}}
                \cup {NewChange(b, "Removed") : b \in {e \in before : ~Has(after, e)}}
                \cup {NewChange(a, "Added") : a \in {e \in after : ~Has(before, e)}}

\* mutant: the plan is the whole new tree, not its difference from the old
changes_from_new_tree(old, new) ==
    {NewChange(c, "Added") : c \in packages(new)}

changes_from_package_trees(old, new) ==
    UNION {DeltaChanges(old, new, d) : d \in tree_diff(old, new)}

\* -------------------------------------------------------------- strings
\* A String is kept as a string, a char as a string of length one.

\* str::starts_with, for the part of s that begins at n
MatchAt(s, pat, n) ==
    /\ n + Len(pat) - 1 <= Len(s)
    /\ SubSeq(s, n, n + Len(pat) - 1) = pat

\* str::replace: every match of pat, found from left to right in s and only
\* in s, gives way to `to`
RECURSIVE replace_from(_, _, _, _)
replace_from(s, pat, to, n) ==
    IF n > Len(s) THEN ""
    ELSE IF MatchAt(s, pat, n) THEN to \o replace_from(s, pat, to, n + Len(pat))
    ELSE SubSeq(s, n, n) \o replace_from(s, pat, to, n + 1)

replace(s, pat, to) == replace_from(s, pat, to, 1)

Uppercase == "ABCDEFGHIJKLMNOPQRSTUVWXYZ"

Lowercase == "abcdefghijklmnopqrstuvwxyz"

\* char::to_lowercase
lower(ch) ==
    LET up == {n \in 1..Len(Uppercase) : SubSeq(Uppercase, n, n) = ch}
    IN  IF up = {} THEN ch
        ELSE LET n == CHOOSE m \in up : TRUE IN SubSeq(Lowercase, n, n)

\* str::to_lowercase
RECURSIVE to_lowercase(_)
to_lowercase(s) ==
    IF s = "" THEN "" ELSE lower(SubSeq(s, 1, 1)) \o to_lowercase(SubSeq(s, 2, Len(s)))

\* hex::encode of a digest: the digest is kept as written in the index
hex_encode(d) == to_lowercase(d)

\* ------------------------------------------------------------ file system
\* A path is the sequence of its components. Paths under the cache root
\* (Cache::path) are written relative to it, so the cache root is <<>>; a path
\* that begins with the component "/" is an absolute path outside of it.
CacheRoot == <<>>

\* Path::components of a string: the parts between the separators, empty
\* parts and "." left out
RECURSIVE components(_, _, _)
components(s, n, part) ==
    LET done == IF part \in {"", "."} THEN <<>> ELSE <<part>>
    IN  IF n > Len(s) THEN done
        ELSE IF SubSeq(s, n, n) = "/" THEN done \o components(s, n + 1, "")
        ELSE components(s, n + 1, part \o SubSeq(s, n, n))

Absolute(p) == Len(p) > 0 /\ p[1] = "/"

\* PathBuf::join: an absolute path replaces the path it is joined to
join(p, s) ==
    IF MatchAt(s, "/", 1) THEN <<"/">> \o components(s, 1, "")
    ELSE p \o components(s, 1, "")

crates_path == <<"crates">>

\* the directory Cache::new clones the index into
index_path == <<"index">>

\* mutant: new creates the artifact tree as well
NewCacheWithCrates == {index_path, crates_path}

\* the directories under the cache root once Cache::new has returned
NewCache == {index_path}

\* mutant: the artifact is the version entry itself
locate_crate_unnamed(c) == crates_path \o <<c.name, c.version>>

\* Cache::locate_crate
locate_crate(c) == join(join(join(crates_path, c.name), c.version), "download")

Parent(p) == SubSeq(p, 1, Len(p) - 1)

\* Path::starts_with
StartsWith(p, q) ==
    /\ Absolute(p) = Absolute(q)
    /\ Len(q) <= Len(p) /\ SubSeq(p, 1, Len(q)) = q

\* the proper ancestors of p strictly below the cache root
Ancestors(p) == {SubSeq(p, 1, n) : n \in 1..(Len(p) - 1)}

\* mutant: every directory passes for empty
EmptyUnchecked(ds, fs, d) == TRUE

\* read_dir(d).next_entry() is None; remove_dir(d) succeeds
IsEmptyDir(ds, fs, d) ==
    /\ \A e \in ds : Parent(e) # d
    /\ \A f \in DOMAIN fs : Parent(f) # d

Without(f, x) == [y \in DOMAIN f \ {x} |-> f[y]]

NoTasks == [x \in {} |-> None]


\* ------------------------------------------------------------------ state
VARIABLES
    head,         \* commit id of the local branch tip (the index pointer)
    tracking,     \* commit id of the remote-tracking branch (set by fetch)
    remote,       \* commit id of the branch in the remote repository
    dirs,         \* directories under the cache root
    files,        \* artifact files: path -> SHA-256 of the content
    mode,         \* "sync" or "verify": the subcommand being run
    jobs,         \* --jobs of the run
    pc,           \* "idle", "refresh", "stage", "apply"
    todo,         \* items of the stream not yet started
    running,      \* in-flight futures: item -> [pc, from]
    finished,     \* items whose future returned Ok
    pending,      \* the PendingUpdate held by Cache::update
    result,       \* exit of the last run: "none", "running", "ok", "failed"
    err,          \* the error the run returned
    runs,         \* number of runs started
    faults,       \* number of transport faults injected
    plan,         \* history: the changes staged by the run
    skipped,      \* history: crates whose download the run logged and skipped
    fatal,        \* history: the first other error a sub-step of the run returned
    headAtStage,  \* history: the local tip when the run staged its update
    failedIn,     \* history: the phase in which the run failed
    rerun,        \* history: the run repeats one that failed while applying
    retry,        \* history: the last run on this upstream failed while applying
    filesAtStart, \* history: the artifact files when the run started
    applyDirs,    \* history: the directories when change application started
    applyFiles,   \* history: the files when change application started
    lock,         \* the operation that holds the repository mutex, or None
    at,           \* index adapter: the operation Cache::refresh / update awaits
    configuration,\* index adapter: the Configuration the run expands URLs with
    urls,         \* index adapter: the URLs the run has expanded
    is_branch,    \* HEAD of the repository is a branch (not detached)
    arg,          \* function calls: the arguments of the call
    ret           \* function calls: what the call returned

repo == <<head, tracking, remote>>
tree == <<dirs, files>>
ctl == <<pc, todo, running, finished, pending, result, err, failedIn, retry>>
run == <<mode, jobs, runs, plan, headAtStage, rerun, filesAtStart, applyDirs, applyFiles>>
log == <<skipped, fatal>>
adapter == <<lock, at, configuration, urls>>
call == <<arg, ret>>
vars == <<repo, tree, ctl, run, faults, log, adapter, is_branch, call>>

NoErr == [kind |-> None, source |-> None, name |-> None, version |-> None]

NoPending == [target |-> None, changes |-> {}]

NoConfiguration == [ok |-> FALSE, template |-> ""]

NoCall == [fn |-> None]

Init ==
    /\ head = "c0" /\ tracking = "c0" /\ remote = "c0"
    /\ dirs = NewCache /\ files = NoTasks
    /\ mode = None /\ jobs = 1
    /\ pc = "idle" /\ todo = {} /\ running = NoTasks /\ finished = {}
    /\ pending = NoPending /\ result = None /\ err = NoErr
    /\ runs = 0 /\ faults = 0
    /\ plan = {} /\ skipped = {} /\ fatal = NoErr /\ headAtStage = "c0" /\ failedIn = None
    /\ rerun = FALSE /\ retry = FALSE
    /\ filesAtStart = NoTasks /\ applyDirs = {} /\ applyFiles = NoTasks
    /\ lock = None /\ at = "idle" /\ configuration = NoConfiguration /\ urls = {}
    /\ is_branch = TRUE /\ arg = NoCall /\ ret = NoCall

\* ------------------------------------------------------ the worker pool
\* mutant: an unbounded fan-out
MayStartAlways(n, limit) == TRUE

\* try_for_each_concurrent(limit): the stream is polled for a new item only
\* while fewer than limit futures are in flight
MayStart(n, limit) == n < limit

\* mutant: the stream is exhausted, futures may still be in flight
AllStarted == todo = {}

\* try_for_each_concurrent resolves Ok once the stream is exhausted and no
\* future is in flight
AllApplied == todo = {} /\ DOMAIN running = {}

\* mutant: a Modified change downloads without removing the old artefact
FirstStepKeepsOld(kind) ==
    IF kind = "Removed" THEN "meta" ELSE "d_check"

\* the first await of the closure's match arm for the kind of change
FirstStep(kind) ==
    IF kind \in {"Removed", "Modified"} THEN "meta" ELSE "d_check"

At(p, f) == [pc |-> p, from |-> f]

Continue(i, st) ==
    /\ running' = [running EXCEPT ![i] = st]
    /\ UNCHANGED <<pc, todo, finished, pending, result, err, failedIn, retry>>

Finish(i) ==
    /\ running' = Without(running, i)
    /\ finished' = finished \cup {i}
    /\ UNCHANGED <<pc, todo, pending, result, err, failedIn, retry>>

\* mutant: the error is recorded and the remaining items are still processed
FailKeepsGoing(e) ==
    /\ result' = "failed"
    /\ err' = e
    /\ failedIn' = pc
    /\ UNCHANGED <<pc, todo, running, finished, pending, retry>>

\* the first Err makes try_for_each_concurrent return it and drop the stream
\* and every future in flight; `?` returns it from refresh / update, which
\* drops the PendingUpdate
Fail(e) ==
    /\ running' = NoTasks
    /\ todo' = {}
    /\ pc' = "idle"
    /\ pending' = NoPending
    /\ result' = "failed"
    /\ err' = e
    /\ failedIn' = pc
    /\ retry' = (pc = "apply")
    /\ UNCHANGED finished

\* history of the errors the sub-steps return: k of kind e on the item i
Raise(i, e, k) ==
    IF e \in {"ChecksumMismatch", "Http"}
    THEN /\ skipped' = skipped \cup
                {[phase |-> pc, name |-> i.on.name, version |-> i.on.version]}
         /\ fatal' = fatal
    ELSE /\ skipped' = skipped
         /\ fatal' = IF fatal = NoErr
                     THEN [kind |-> k, source |-> e,
                           name |-> i.on.name, version |-> i.on.version]
                     ELSE fatal

TaskStart(i) ==
    /\ pc \in {"refresh", "apply"}
    /\ i \in todo
    /\ MayStart(Cardinality(DOMAIN running), jobs)
    /\ todo' = todo \ {i}
    /\ running' = (i :> At(FirstStep(i.kind), <<>>)) @@ running
    /\ UNCHANGED <<repo, tree, run, faults, log>>
    /\ UNCHANGED <<pc, finished, pending, result, err, failedIn, retry>>
    /\ UNCHANGED <<adapter, is_branch, call>>


\* ------------------------------------------------------------- downloads
\* download::PreservationStrategy chosen by verify / synchronise
Preserve == IF mode = "verify" THEN "Checksum" ELSE "Always"

\* mutant: every download error is logged and skipped
RecoverableAny(e) == TRUE

\* mutant: an unsuccessful HTTP status is not skipped
RecoverableChecksumOnly(e) == e = "ChecksumMismatch"

\* the errors the closures of refresh and update log and skip
Recoverable(e) == e \in {"ChecksumMismatch", "Http"}

CrateDownloadError(source, c) ==
    [kind |-> "CrateDownload", source |-> source,
     name |-> c.name, version |-> c.version]

\* the closure's match on the result of Download::run
DownloadError(i, e) ==
    /\ Raise(i, e, "CrateDownload")
    /\ IF Recoverable(e)
       THEN Finish(i)
       ELSE Fail(CrateDownloadError(e, i.on))

\* mutant: no preservation, every download requests the crate
PreservedNever(dest, checksum) == FALSE

\* mutant: verify keeps an existing file without computing its digest
PreservedUnchecked(dest, checksum) == dest \in DOMAIN files

\* Download::run, the preservation strategy: is the file at dest kept
Preserved(dest, checksum) ==
    /\ dest \in DOMAIN files
    /\ Preserve = "Checksum" => files[dest] = checksum

\* mutant: the body is installed without comparing its digest
VerifiedAlways(digest, checksum) == TRUE

\* Download::run, the digest of the streamed body against the checksum
Verified(digest, checksum) == digest = checksum

\* Download::run, preservation check
DownloadCheck(i) ==
    /\ i \in DOMAIN running /\ running[i].pc = "d_check"
    /\ IF Preserved(locate_crate(i.on), i.on.checksum)
       THEN Finish(i)
       ELSE Continue(i, At("d_get", <<>>))
    /\ UNCHANGED <<repo, tree, run, faults, log>>
    /\ UNCHANGED <<adapter, is_branch, call>>

\* the digest of a body that is not the crate the index lists
Garbled == "garbled"

\* Download::run, the GET and the digest of the streamed body
DownloadGet(i) ==
    /\ i \in DOMAIN running /\ running[i].pc = "d_get"
    /\ \E answer \in {"Ok", "Http", "Transport"}, body \in {i.on.checksum, Garbled} :
          /\ answer # "Ok" => body = Garbled
          /\ answer = "Transport" => faults < MaxFaults
          /\ faults' = IF answer = "Transport" THEN faults + 1 ELSE faults
          /\ IF answer # "Ok"
             THEN DownloadError(i, answer)
             ELSE IF Verified(body, i.on.checksum)
             THEN Continue(i, At("d_mkdir", body)) /\ UNCHANGED log
             ELSE DownloadError(i, "ChecksumMismatch")
    /\ UNCHANGED <<repo, tree, run>>
    /\ UNCHANGED <<adapter, is_branch, call>>

\* Download::run, creation of the parent directories of the destination
DownloadMkdir(i) ==
    /\ i \in DOMAIN running /\ running[i].pc = "d_mkdir"
    /\ dirs' = dirs \cup Ancestors(locate_crate(i.on))
    /\ Continue(i, At("d_rename", running[i].from))
    /\ UNCHANGED <<repo, files, run, faults, log>>
    /\ UNCHANGED <<adapter, is_branch, call>>

\* Download::run, rename of the temporary file onto the destination
DownloadRename(i) ==
    /\ i \in DOMAIN running /\ running[i].pc = "d_rename"
    /\ LET dest == locate_crate(i.on)
       IN  IF Parent(dest) \in dirs
           THEN /\ files' = (dest :> running[i].from) @@ Without(files, dest)
                /\ Finish(i)
                /\ UNCHANGED log
           ELSE /\ DownloadError(i, "Transport")
                /\ UNCHANGED files
    /\ UNCHANGED <<repo, dirs, run, faults>>
    /\ UNCHANGED <<adapter, is_branch, call>>

\* ------------------------------------------------- removals and pruning
IoError(source, c) ==
    [kind |-> "Io", source |-> source, name |-> c.name, version |-> c.version]

PruneError(source, c) ==
    [kind |-> "PruneDirectories", source |-> source,
     name |-> c.name, version |-> c.version]

\* mutant: the prune stops at the crates directory
PruneUntilCrates == crates_path

\* the `until` that Cache::update hands to prune_directories: &self.path
PruneUntil == CacheRoot

\* prune_directories: the loop head for the directory `from`
PruneLoop(i, from, until) ==
    IF from # until THEN Continue(i, At("p_read", from)) ELSE Finish(i)

\* what follows the removal of the old artefact
AfterRemoval(i) ==
    IF i.kind = "Removed"
    THEN LET from == Parent(locate_crate(i.on))
         IN  IF ~StartsWith(from, PruneUntil)
             THEN Fail(PruneError("TraversalIsImpossible", i.on))
             ELSE PruneLoop(i, from, PruneUntil)
    ELSE Continue(i, At("d_check", <<>>))

\* fs::metadata(&location)
Metadata(i) ==
    /\ i \in DOMAIN running /\ running[i].pc = "meta"
    /\ IF locate_crate(i.on) \in DOMAIN files
       THEN Continue(i, At("unlink", <<>>))
       ELSE AfterRemoval(i)
    /\ UNCHANGED <<repo, tree, run, faults, log>>
    /\ UNCHANGED <<adapter, is_branch, call>>

\* fs::remove_file(&location)
RemoveFile(i) ==
    /\ i \in DOMAIN running /\ running[i].pc = "unlink"
    /\ LET dest == locate_crate(i.on)
       IN  IF dest \in DOMAIN files
           THEN /\ files' = Without(files, dest)
                /\ AfterRemoval(i)
                /\ UNCHANGED log
           ELSE /\ Raise(i, "NotFound", "Io")
                /\ Fail(IoError("NotFound", i.on))
                /\ UNCHANGED files
    /\ UNCHANGED <<repo, dirs, run, faults>>
    /\ UNCHANGED <<adapter, is_branch, call>>

\* prune_directories: fs::read_dir(from) and next_entry
PruneRead(i) ==
    /\ i \in DOMAIN running /\ running[i].pc = "p_read"
    /\ LET from == running[i].from
       IN  IF from \notin dirs
           THEN Raise(i, "NotFound", "PruneDirectories") /\ Fail(PruneError("NotFound", i.on))
           ELSE /\ UNCHANGED log
                /\ IF IsEmptyDir(dirs, files, from)
                   THEN Continue(i, At("p_rm", from))
                   ELSE PruneLoop(i, Parent(from), PruneUntil)
    /\ UNCHANGED <<repo, tree, run, faults>>
    /\ UNCHANGED <<adapter, is_branch, call>>

\* prune_directories: fs::remove_dir(from), then the step to the parent
PruneRemove(i) ==
    /\ i \in DOMAIN running /\ running[i].pc = "p_rm"
    /\ LET from == running[i].from
       IN  IF from \notin dirs
           THEN /\ Raise(i, "NotFound", "PruneDirectories")
                /\ Fail(PruneError("NotFound", i.on))
                /\ UNCHANGED dirs
           ELSE IF ~IsEmptyDir(dirs, files, from)
           THEN /\ Raise(i, "DirectoryNotEmpty", "PruneDirectories")
                /\ Fail(PruneError("DirectoryNotEmpty", i.on))
                /\ UNCHANGED dirs
           ELSE /\ dirs' = dirs \ {from}
                /\ PruneLoop(i, Parent(from), PruneUntil)
                /\ UNCHANGED log
    /\ UNCHANGED <<repo, files, run, faults>>
    /\ UNCHANGED <<adapter, is_branch, call>>

\* ------------------------------------------------------------- the runs
BeginRefresh(m, j) ==
    /\ pc = "idle"
    /\ runs < MaxRuns
    /\ runs' = runs + 1
    /\ mode' = m /\ jobs' = j
    /\ pc' = "refresh"
    /\ todo' = {NewChange(c, "Refresh") : c \in packages(head)}
    /\ running' = NoTasks /\ finished' = {}
    /\ result' = "running" /\ err' = NoErr /\ failedIn' = None
    /\ plan' = {} /\ skipped' = {} /\ fatal' = NoErr /\ headAtStage' = head
    /\ rerun' = retry
    /\ filesAtStart' = files /\ applyDirs' = {} /\ applyFiles' = NoTasks
    /\ UNCHANGED <<repo, tree, pending, retry, faults>>
    /\ UNCHANGED <<adapter, is_branch, call>>

\* main.rs verify: Cache::refresh with preservation by checksum
Verify(j) == BeginRefresh("verify", j)

\* main.rs synchronise: Cache::refresh, then Cache::update
Synchronise(j) == BeginRefresh("sync", j)

\* Cache::refresh returns Ok
RefreshReturn ==
    /\ pc = "refresh"
    /\ AllApplied
    /\ IF mode = "verify"
       THEN pc' = "idle" /\ result' = "ok"
       ELSE pc' = "stage" /\ result' = result
    /\ UNCHANGED <<repo, tree, run, faults, log>>
    /\ UNCHANGED <<todo, running, finished, pending, err, failedIn, retry>>
    /\ UNCHANGED <<adapter, is_branch, call>>

\* mutant: the fetch fast-forwards the local branch, as a pull would
LocalTipPulled == remote

\* Index::update: the fetch moves the remote-tracking branch only
LocalTipAfterFetch == head

\* Index::update: fetch the upstream, diff the trees, stage the changes
IndexUpdate ==
    /\ pc = "stage"
    /\ tracking' = remote
    /\ head' = LocalTipAfterFetch
    /\ LET changes == changes_from_package_trees(head, remote)
       IN  /\ pending' = [target |-> remote, changes |-> changes]
           /\ todo' = changes
           /\ plan' = changes
    /\ finished' = {}
    /\ pc' = "apply"
    /\ headAtStage' = head
    /\ applyDirs' = dirs /\ applyFiles' = files
    /\ UNCHANGED <<remote, tree, faults, log>>
    /\ UNCHANGED <<mode, jobs, runs, rerun, filesAtStart>>
    /\ UNCHANGED <<running, result, err, failedIn, retry>>
    /\ UNCHANGED <<adapter, is_branch, call>>

\* PendingUpdate::commit: move the local branch to the target
PendingCommit ==
    /\ pc = "apply"
    /\ AllApplied
    /\ head' = pending.target
    /\ pending' = NoPending
    /\ pc' = "idle"
    /\ result' = "ok"
    /\ retry' = FALSE
    /\ UNCHANGED <<tracking, remote, tree, run, faults, log>>
    /\ UNCHANGED <<todo, running, finished, err, failedIn>>
    /\ UNCHANGED <<adapter, is_branch, call>>

\* a push to the upstream repository between two runs
RemotePush(c) ==
    /\ pc = "idle"
    /\ c \in Later(remote)
    /\ remote' = c
    /\ retry' = FALSE
    /\ UNCHANGED <<head, tracking, tree, run, faults, log>>
    /\ UNCHANGED <<pc, todo, running, finished, pending, result, err, failedIn>>
    /\ UNCHANGED <<adapter, is_branch, call>>

Items == {NewChange(c, k) : c \in UNION {packages(t) : t \in Commits},
                            k \in {"Refresh", "Added", "Removed", "Modified"}}

Next ==
    \/ \E j \in 1..MaxJobs : Synchronise(j)
    \/ \E j \in 1..MaxJobs : Verify(j)
    \/ RefreshReturn
    \/ IndexUpdate
    \/ PendingCommit
    \/ \E c \in Commits : RemotePush(c)
    \/ \E i \in Items : TaskStart(i)
    \/ \E i \in Items : DownloadCheck(i)
    \/ \E i \in Items : DownloadGet(i)
    \/ \E i \in Items : DownloadMkdir(i)
    \/ \E i \in Items : DownloadRename(i)
    \/ \E i \in Items : Metadata(i)
    \/ \E i \in Items : RemoveFile(i)
    \/ \E i \in Items : PruneRead(i)
    \/ \E i \in Items : PruneRemove(i)

Spec == Init /\ [][Next]_vars

\* the steps of a run that has started: the tokio runtime polls the future of
\* refresh / update and the futures of its workers as long as one can go on
RunStep ==
    \/ RefreshReturn
    \/ IndexUpdate
    \/ PendingCommit
    \/ \E i \in Items : TaskStart(i)
    \/ \E i \in Items : DownloadCheck(i)
    \/ \E i \in Items : DownloadGet(i)
    \/ \E i \in Items : DownloadMkdir(i)
    \/ \E i \in Items : DownloadRename(i)
    \/ \E i \in Items : Metadata(i)
    \/ \E i \in Items : RemoveFile(i)
    \/ \E i \in Items : PruneRead(i)
    \/ \E i \in Items : PruneRemove(i)

\* Spec with the runs scheduled fairly; every download and file system call
\* returns
FairSpec == Spec /\ WF_vars(RunStep)

\* ------------------------------------------- sequential change application
\* prune_directories(from, until), run without interruption
RECURSIVE prune_directories(_, _, _, _)
prune_directories(ds, fs, from, until) ==
    IF from = until THEN [ok |-> TRUE, dirs |-> ds]
    ELSE IF from \notin ds THEN [ok |-> FALSE, dirs |-> ds]
    ELSE IF IsEmptyDir(ds, fs, from)
         THEN prune_directories(ds \ {from}, fs, Parent(from), until)
         ELSE prune_directories(ds, fs, Parent(from), until)

\* Download::run under preservation Always, run without interruption; skip
\* says that the server's answer is a ChecksumMismatch or Http
DownloadWhole(st, c, skip) ==
    LET dest == locate_crate(c)
    IN  IF dest \in DOMAIN st.files \/ skip THEN st
        ELSE [st EXCEPT !.dirs = @ \cup Ancestors(dest),
                        !.files = (dest :> c.checksum) @@ @]

\* one arm of the match in Cache::update, run without interruption
ApplyWhole(st, ch, skip) ==
    LET dest == locate_crate(ch.on)
        removed == [st EXCEPT !.files = Without(@, dest)]
    IN  CASE ch.kind = "Added" -> DownloadWhole(st, ch.on, skip)
          [] ch.kind = "Modified" -> DownloadWhole(removed, ch.on, skip)
          [] OTHER ->
                IF ~StartsWith(Parent(dest), PruneUntil)
                THEN [removed EXCEPT !.ok = FALSE]
                ELSE LET r == prune_directories(removed.dirs, removed.files,
                                                Parent(dest), PruneUntil)
                     IN  [removed EXCEPT !.ok = r.ok, !.dirs = r.dirs]

\* the changes applied one after another
RECURSIVE ApplyInTurn(_, _, _)
ApplyInTurn(st, chs, skips) ==
    IF chs = {} \/ ~st.ok THEN st
    ELSE LET ch == CHOOSE x \in chs : TRUE
         IN  ApplyInTurn(ApplyWhole(st, ch, key(ch.on) \in skips), chs \ {ch}, skips)

\* ----------------------------------------------- prefix, locate
\* mutant: one char short
take_short(s, n) == SubSeq(s, 1, IF Len(s) < n THEN Len(s) ELSE n - 1)

\* chars().take(n).collect()
take(s, n) == SubSeq(s, 1, IF Len(s) < n THEN Len(s) ELSE n)

Panic == [ok |-> FALSE, value |-> "unreachable"]

\* Crate::prefix
prefix(c) ==
    LET chars == take(c.name, 4)
    IN  CASE Len(chars) = 1 -> [ok |-> TRUE, value |-> "1"]
          [] Len(chars) = 2 -> [ok |-> TRUE, value |-> "2"]
          [] Len(chars) = 3 -> [ok |-> TRUE, value |-> "3/" \o SubSeq(chars, 1, 1)]
          [] Len(chars) = 4 ->
                [ok |-> TRUE, value |-> SubSeq(chars, 1, 2) \o "/" \o SubSeq(chars, 3, 4)]
          [] OTHER -> Panic

\* Url::parse, as far as a template reaches it: a string without a scheme is
\* refused, '{' and '}' of the path are percent-encoded
Url_parse(s) ==
    IF MatchAt(s, "http://", 1)
    THEN [ok |-> TRUE, url |-> replace(replace(s, "{", "%7B"), "}", "%7D")]
    ELSE [ok |-> FALSE, url |-> s]

\* Configuration::locate, the five chained replaces
templated(cfg, c) ==
    replace(replace(replace(replace(replace(cfg.template,
        "{crate}", c.name),
        "{version}", c.version),
        "{prefix}", prefix(c).value),
        "{lowerprefix}", to_lowercase(prefix(c).value)),
        "{sha256-checksum}", hex_encode(c.checksum))

\* Configuration::locate, the test for the default path
default(cfg, c) == templated(cfg, c) = cfg.template

\* Configuration::locate
locate(cfg, c) ==
    IF ~prefix(c).ok THEN [ok |-> FALSE, url |-> Panic.value]
    ELSE IF default(cfg, c)
    THEN Url_parse(cfg.template \o "/" \o c.name \o "/" \o c.version \o "/" \o "download")
    ELSE Url_parse(templated(cfg, c))

\* ------------------------------------------------------ the index adapter
\* The repository operations of Index, each one a spawn_blocking closure
\* that takes the repository mutex, over snapshots whose blobs are kept as
\* written: a blob is a sequence of lines, a line is a JSON object.
CONFIGURATION_FILENAME == "config.json"

Workdir == <<"index">>

\* the JSON objects of the blobs: field -> value
ConfigLine(dl) == "dl" :> dl

CrateLine(n, v, c) == ("name" :> n) @@ ("vers" :> v) @@ ("cksum" :> c)

OldTemplate == "http://old/{crate}/{version}"

NewTemplate == "http://new"

IndexCommits == {"k0", "k1", "k2", "k3", "k4", "k5"}

\* the commits pushed after c
IndexLater(c) ==
    CASE c = "k0" -> {"k1", "k2", "k3", "k4", "k5"}
      [] c = "k1" -> {"k2", "k3", "k4", "k5"}
      [] c = "k2" -> {"k3", "k4", "k5"}
      [] c = "k3" -> {"k4", "k5"}
      [] c = "k4" -> {"k5"}
      [] OTHER -> {}

\* a file of the root whose name starts with '.', in every commit
Gitignore == <<".gitignore">> :> <<"pattern" :> "target">>

\* a package-like file under a hidden directory of the root
HiddenPackage == <<".github", "h">> :> <<CrateLine("h", "1", "x")>>

\* the tree of a commit: path -> blob. The config.json of k3 and k4 carries
\* the fields of a crate record besides "dl"; k5 has no config.json and a
\* package file whose record lacks "vers" and "cksum".
Blobs(c) ==
    Gitignore @@
    CASE c = "k0" ->
            (<<CONFIGURATION_FILENAME>> :> <<ConfigLine(OldTemplate)>>) @@
            (<<"1", "a">> :> <<CrateLine("a", "1", "x")>>)
      [] c = "k1" ->
            HiddenPackage @@
            (<<CONFIGURATION_FILENAME>> :> <<ConfigLine(OldTemplate)>>) @@
            (<<"1", "a">> :> <<CrateLine("a", "1", "y"), CrateLine("a", "2", "x")>>)
      [] c = "k2" ->
            HiddenPackage @@
            (<<CONFIGURATION_FILENAME>> :> <<ConfigLine(NewTemplate)>>) @@
            (<<"1", "a">> :> <<CrateLine("a", "1", "y"), CrateLine("a", "2", "x")>>) @@
            (<<"1", "b">> :> <<CrateLine("b", "1", "x")>>)
      [] c = "k3" ->
            (<<CONFIGURATION_FILENAME>> :>
                <<ConfigLine(OldTemplate) @@ CrateLine("cfg", "1", "x")>>) @@
            (<<"1", "b">> :> <<CrateLine("b", "1", "x")>>)
      [] c = "k4" ->
            (<<CONFIGURATION_FILENAME>> :>
                <<ConfigLine(NewTemplate) @@ CrateLine("cfg", "1", "x")>>) @@
            (<<"1", "b">> :> <<CrateLine("b", "1", "y")>>) @@
            (<<"1", "c">> :> <<CrateLine("c", "1", "x")>>) @@
            (<<"ab", "cd", "abcd">> :> <<CrateLine("abcd", "1", "x")>>)
      [] OTHER ->
            (<<"1", "c">> :> <<CrateLine("c", "1", "x")>>) @@
            (<<"1", "d">> :> <<"name" :> "d">>)

\* serde on Crate: name, vers and cksum are required, other fields ignored
CrateParses(o) == {"name", "vers", "cksum"} \subseteq DOMAIN o

\* Crate::from_str
Crate_from_str(o) == NewCrate(o["name"], o["vers"], o["cksum"])

\* Package::from_slice: every line must deserialise as a Crate
Package_from_slice(blob) ==
    [ok |-> \A n \in 1..Len(blob) : CrateParses(blob[n]),
     crates |-> {Crate_from_str(blob[n]) :
                    n \in {m \in 1..Len(blob) : CrateParses(blob[m])}}]

\* The text of a file, for Package::from_str: a sequence of tokens, each a
\* space, a line feed or a JSON object.
Space == [ws |-> " "]

Newline == [ws |-> "\n"]

Json(o) == [json |-> o]

\* str::lines: the text split at the line feeds; nothing follows the last
\* line feed
RECURSIVE lines(_, _)
lines(text, line) ==
    IF text = <<>> THEN (IF line = <<>> THEN <<>> ELSE <<line>>)
    ELSE IF Head(text) = Newline THEN <<line>> \o lines(Tail(text), <<>>)
    ELSE lines(Tail(text), Append(line, Head(text)))

\* str::trim
RECURSIVE trim(_)
trim(line) ==
    IF line = <<>> THEN line
    ELSE IF Head(line) = Space THEN trim(Tail(line))
    ELSE IF line[Len(line)] = Space THEN trim(SubSeq(line, 1, Len(line) - 1))
    ELSE line

\* Package::from_str: Crate::from_str on every trimmed line of the text; a
\* line deserialises when it is one JSON object with the fields of a Crate
Package_from_str(text) ==
    LET ls == lines(text, <<>>)
        each == [n \in DOMAIN ls |-> trim(ls[n])]
        Object(l) == Len(l) = 1 /\ "json" \in DOMAIN l[1]
    IN  IF \A n \in DOMAIN each : Object(each[n])
        THEN Package_from_slice([n \in DOMAIN each |-> each[n][1].json])
        ELSE [ok |-> FALSE, crates |-> {}]

\* Configuration::from_slice: the blob is one JSON object with a "dl"
Configuration_from_slice(blob) ==
    IF Len(blob) = 1 /\ "dl" \in DOMAIN blob[1]
    THEN [ok |-> TRUE, template |-> blob[1]["dl"]]
    ELSE NoConfiguration

\* git2 diff_tree_to_tree over the blobs of two commits
blob_diff(old, new) ==
    {[path |-> p,
      status |-> IF p \notin DOMAIN Blobs(old) THEN "Added"
                 ELSE IF p \notin DOMAIN Blobs(new) THEN "Deleted"
                 ELSE "Modified"] :
        p \in {q \in DOMAIN Blobs(old) \cup DOMAIN Blobs(new) :
                  \/ q \notin DOMAIN Blobs(old)
                  \/ q \notin DOMAIN Blobs(new)
                  \/ Blobs(old)[q] # Blobs(new)[q]}}

\* Index::update: the path the deltas are compared with
exclude == Workdir \o <<CONFIGURATION_FILENAME>>

\* Index::update: the filter on the deltas
filtered(deltas) == {d \in deltas : d.path # exclude}

CorruptPackageError(path) ==
    [kind |-> "CorruptPackage", source |-> path, name |-> None, version |-> None]

\* the orders in which a hash set may hand out its elements
Orders(S) == {s \in [1..Cardinality(S) -> S] : {s[n] : n \in DOMAIN s} = S}

\* collect::<AHashMap<CrateKey, Crate>>: of the crates of one key, the one
\* inserted last stays
Maps(S) == {m \in [{key(c) : c \in S} -> S] : \A k \in DOMAIN m : key(m[k]) = k}

\* into_crates().map(|on| Change { on, kind })
Each(order, kind) == [n \in DOMAIN order |-> NewChange(order[n], kind)]

\* mutant: the key stays in the map
remove_nothing(after, k) == after

\* AHashMap::remove
remove(after, k) == [x \in DOMAIN after \ {k} |-> after[x]]

\* changes_from_package_trees, Delta::Modified: the loop over the old
\* crates; gives the changes pushed and what is left of the map
RECURSIVE compare(_, _)
compare(order, after) ==
    IF order = <<>> THEN [changes |-> <<>>, after |-> after]
    ELSE LET before == Head(order)
             k == key(before)
         IN  IF k \in DOMAIN after
             THEN LET rest == compare(Tail(order), remove(after, k))
                  IN  [rest EXCEPT !.changes =
                          (IF before.checksum # after[k].checksum
                           THEN <<NewChange(after[k], "Modified")>>
                           ELSE <<>>) \o @]
             ELSE LET rest == compare(Tail(order), after)
                  IN  [rest EXCEPT !.changes = <<NewChange(before, "Removed")>> \o @]

Filtered == [error |-> NoErr, changes |-> <<>>]

Unreachable ==
    [error |-> [kind |-> "unreachable", source |-> None, name |-> None, version |-> None],
     changes |-> <<>>]

\* mutant: no delta is filtered out
matches_any(status) == TRUE

\* matches!(diff.status(), Delta::Added | Delta::Deleted | Delta::Modified)
matches(status) == status \in {"Added", "Deleted", "Modified"}

\* changes_from_package_trees for one delta: what it may yield, one outcome
\* for each order of iteration of the hash collections. A delta that is not
\* Added, Deleted or Modified is filtered out before any blob is read.
delta_changes(status, old, new, path) ==
    LET corrupt == {[error |-> CorruptPackageError(path), changes |-> <<>>]}
        o == Package_from_slice(old)
        n == Package_from_slice(new)
    IN  IF ~matches(status) THEN {Filtered}
        ELSE
        CASE status = "Added" ->
                IF ~n.ok THEN corrupt
                ELSE {[error |-> NoErr, changes |-> Each(t, "Added")] : t \in Orders(n.crates)}
          [] status = "Deleted" ->
                IF ~o.ok THEN corrupt
                ELSE {[error |-> NoErr, changes |-> Each(t, "Removed")] : t \in Orders(o.crates)}
          [] status = "Modified" ->
                IF ~n.ok \/ ~o.ok THEN corrupt
                ELSE UNION {
                        LET r == compare(order, after)
                        IN  {[error |-> NoErr, changes |-> r.changes \o Each(t, "Added")] :
                                t \in Orders({r.after[k] : k \in DOMAIN r.after})} :
                        order \in Orders(o.crates), after \in Maps(n.crates)}
          [] OTHER -> {Unreachable}

\* changes_from_package_trees for one delta of two commits: the changes, or
\* the error for the blob that does not parse
BlobChanges(old, new, d) ==
    LET r == CHOOSE x \in delta_changes(d.status,
                            IF d.status = "Added" THEN <<>> ELSE Blobs(old)[d.path],
                            IF d.status = "Deleted" THEN <<>> ELSE Blobs(new)[d.path],
                            d.path) : TRUE
    IN  [error |-> r.error, changes |-> {r.changes[n] : n \in DOMAIN r.changes}]

\* mutant: the changes of the files that parse are staged
collected_lenient(old, new, deltas) ==
    LET each == {BlobChanges(old, new, d) : d \in deltas}
    IN  [error |-> NoErr, changes |-> UNION {r.changes : r \in each}]

\* the collect of the changes: the first error, or all the changes
collected(old, new, deltas) ==
    LET each == {BlobChanges(old, new, d) : d \in deltas}
    IN  IF \E r \in each : r.error # NoErr
        THEN [error |-> (CHOOSE r \in each : r.error # NoErr).error, changes |-> {}]
        ELSE [error |-> NoErr, changes |-> UNION {r.changes : r \in each}]

GetConfigurationError(k) ==
    [kind |-> "GetConfiguration", source |-> k, name |-> None, version |-> None]

UnexpectedIndexState ==
    [kind |-> "UnexpectedIndexState", source |-> None, name |-> None, version |-> None]

\* mutant: a detached HEAD passes
DetachedIgnored(branch) == FALSE

\* Index::update: !head.is_branch()
Detached(branch) == ~branch

\* mutant: no root entry is taken for hidden
HiddenNever(name) == FALSE

\* Index::packages: name.starts_with('.')
Hidden(name) == MatchAt(name, ".", 1)

\* Index::packages: the blobs under the root entries that are not hidden and
\* are trees, each parsed as a Package; the path of an error is the path
\* below the root entry
IndexPackages(c) ==
    LET under == {p \in DOMAIN Blobs(c) : ~Hidden(p[1]) /\ Len(p) >= 2}
        bad == {p \in under : ~Package_from_slice(Blobs(c)[p]).ok}
    IN  [error |-> IF bad = {} THEN NoErr
                   ELSE CorruptPackageError(Tail(CHOOSE p \in bad : TRUE)),
         packages |-> {Package_from_slice(Blobs(c)[p]).crates : p \in under},
         crates |-> UNION {Package_from_slice(Blobs(c)[p]).crates : p \in under}]

\* the variables of the artifact tree and of the worker pool
others == <<tree, mode, jobs, pc, todo, running, finished, faults, log,
            failedIn, rerun, retry, filesAtStart, applyDirs, applyFiles,
            is_branch, arg>>

\* the operation of Index that the run awaits at `at`
OpAt(a) ==
    CASE a \in {"r_config", "u_config"} -> "configuration"
      [] a = "r_packages" -> "packages"
      [] a = "u_update" -> "update"
      [] a = "u_commit" -> "commit"
      [] OTHER -> None

\* mutant: the guard outlives the closure
Kept(o) == o

\* the MutexGuard is dropped when the spawn_blocking closure of o ends
Released(o) == None

\* main.rs synchronise, at the granularity of the repository operations
IxSynchronise ==
    /\ at = "idle"
    /\ runs < MaxRuns
    /\ runs' = runs + 1
    /\ at' = "r_config"
    /\ result' = "running" /\ err' = NoErr
    /\ configuration' = NoConfiguration /\ urls' = {}
    /\ pending' = NoPending
    /\ UNCHANGED <<head, tracking, remote, lock, ret, plan, headAtStage, others>>

\* repo.lock() at the head of the closure
IxLock ==
    /\ OpAt(at) # None
    /\ lock = None
    /\ lock' = OpAt(at)
    /\ UNCHANGED <<repo, pending, result, err, runs, at, configuration, urls, ret, plan, headAtStage, others>>

\* the closure of o returns e, or Ok and the run goes on at `next`
IxReturn(o, next, e) ==
    /\ lock' = Released(o)
    /\ IF e = NoErr
       THEN at' = next /\ result' = result /\ err' = err
       ELSE at' = "idle" /\ result' = "failed" /\ err' = e

\* Index::configuration: config.json of the tree at the local head
IxConfiguration ==
    /\ lock = "configuration"
    /\ LET t == Blobs(head)
           found == <<CONFIGURATION_FILENAME>> \in DOMAIN t
           cfg == IF found THEN Configuration_from_slice(t[<<CONFIGURATION_FILENAME>>])
                  ELSE NoConfiguration
           e == IF ~found THEN GetConfigurationError("NotFound")
                ELSE IF ~cfg.ok THEN GetConfigurationError("Corrupt")
                ELSE NoErr
       IN  /\ configuration' = cfg
           /\ IxReturn("configuration", IF at = "r_config" THEN "r_packages" ELSE "u_apply", e)
           /\ pending' = IF e = NoErr THEN pending ELSE NoPending
    /\ UNCHANGED <<repo, runs, urls, ret, plan, headAtStage, others>>

\* Index::packages
IxPackages ==
    /\ lock = "packages"
    /\ ret' = [fn |-> "packages", value |-> IndexPackages(head)]
    /\ IxReturn("packages", "r_downloads", IndexPackages(head).error)
    /\ UNCHANGED <<repo, pending, runs, configuration, urls, plan, headAtStage, others>>

\* Cache::refresh: a download for every crate of the local snapshot
IxRefresh ==
    /\ at = "r_downloads"
    /\ urls' = {locate(configuration, c) : c \in ret.value.crates}
    /\ at' = "u_update"
    /\ UNCHANGED <<repo, lock, pending, result, err, runs, configuration, ret, plan, headAtStage, others>>

\* Index::update: the test of HEAD, then fetch, diff of the two tips, filter,
\* diff engine
IxUpdate ==
    /\ lock = "update"
    /\ IF Detached(is_branch)
       THEN /\ tracking' = tracking /\ pending' = NoPending
            /\ plan' = {}
            /\ IxReturn("update", "u_config", UnexpectedIndexState)
       ELSE /\ tracking' = remote
            /\ LET r == collected(head, remote, filtered(blob_diff(head, remote)))
               IN  /\ pending' = IF r.error = NoErr
                                 THEN [target |-> remote, changes |-> r.changes]
                                 ELSE NoPending
                   /\ plan' = IF r.error = NoErr THEN r.changes ELSE {}
                   /\ IxReturn("update", "u_config", r.error)
    /\ headAtStage' = head
    /\ UNCHANGED <<head, remote, runs, configuration, urls, ret, others>>

\* Cache::update: a download for every Added and Modified change
IxApply ==
    /\ at = "u_apply"
    /\ urls' = urls \cup {locate(configuration, ch.on) :
                             ch \in {x \in pending.changes : x.kind \in {"Added", "Modified"}}}
    /\ at' = "u_commit"
    /\ UNCHANGED <<repo, lock, pending, result, err, runs, configuration, ret, plan, headAtStage, others>>

\* PendingUpdate::commit
IxCommit ==
    /\ lock = "commit"
    /\ head' = pending.target
    /\ pending' = NoPending
    /\ lock' = Released("commit")
    /\ at' = "idle"
    /\ result' = "ok"
    /\ UNCHANGED <<tracking, remote, err, runs, configuration, urls, ret, plan, headAtStage, others>>

\* a push to the upstream repository between two runs
IxPush(c) ==
    /\ at = "idle"
    /\ c \in IndexLater(remote)
    /\ remote' = c
    /\ UNCHANGED <<head, tracking, pending, result, err, runs, adapter, ret, plan, headAtStage, others>>

\* Cache::new has cloned the upstream at one of its commits
IndexInit ==
    /\ head \in IndexCommits /\ tracking = head /\ remote = head
    /\ dirs = NewCache /\ files = NoTasks
    /\ mode = None /\ jobs = 1
    /\ pc = "idle" /\ todo = {} /\ running = NoTasks /\ finished = {}
    /\ pending = NoPending /\ result = None /\ err = NoErr
    /\ runs = 0 /\ faults = 0
    /\ plan = {} /\ skipped = {} /\ fatal = NoErr /\ headAtStage = head /\ failedIn = None
    /\ rerun = FALSE /\ retry = FALSE
    /\ filesAtStart = NoTasks /\ applyDirs = {} /\ applyFiles = NoTasks
    /\ lock = None /\ at = "idle" /\ configuration = NoConfiguration /\ urls = {}
    /\ is_branch \in BOOLEAN /\ arg = NoCall /\ ret = NoCall

IndexNext ==
    \/ IxSynchronise
    \/ IxLock
    \/ IxConfiguration
    \/ IxPackages
    \/ IxRefresh
    \/ IxUpdate
    \/ IxApply
    \/ IxCommit
    \/ \E c \in IndexCommits : IxPush(c)

IndexSpec == IndexInit /\ [][IndexNext]_vars

\* ------------------------------------------------------ function calls
\* Crate::prefix, Configuration::locate and changes_from_package_trees,
\* each applied once to arguments drawn from the sets below.
Names == {"", "a", "ab", "abc", "ABcd", "Abcde", "{crate}", "{version}", "/e", "..", "a/b"}

Versions == {"1", "{prefix}", "/v"}

Templates ==
    {"http://h", "http://h/{crate}", "http://h/{crate}/{version}",
     "http://h/{prefix}/{lowerprefix}/{sha256-checksum}", "h/{crate}"}

CrateCalls ==
    {[fn |-> "crate", template |-> t, crate |-> NewCrate(n, v, "x")] :
        t \in Templates, n \in Names, v \in Versions}

Lines ==
    {CrateLine("a", "1", "x"), CrateLine("a", "1", "y"), CrateLine("a", "2", "x"),
     ConfigLine(OldTemplate)}

\* the blobs of at most two lines
FileBlobs == {<<>>} \cup {<<l>> : l \in Lines} \cup {<<l, m>> : l \in Lines, m \in Lines}

Statuses == {"Added", "Deleted", "Modified", "Renamed", "Typechange"}

DeltaCalls ==
    {[fn |-> "delta", status |-> "Added", old |-> <<>>, new |-> b] : b \in FileBlobs}
    \cup {[fn |-> "delta", status |-> "Deleted", old |-> b, new |-> <<>>] : b \in FileBlobs}
    \cup {x \in {[fn |-> "delta", status |-> st, old |-> b, new |-> c] :
                    st \in Statuses \ {"Added", "Deleted"}, b \in FileBlobs, c \in FileBlobs} :
                x.old # x.new}

DeltaPath == <<"1", "a">>

Tokens ==
    {Space, Newline, Json(CrateLine("a", "1", "x")), Json(CrateLine("a", "2", "x"))}

\* the texts of at most four tokens
Texts ==
    {<<>>} \cup {<<a>> : a \in Tokens} \cup {<<a, b>> : a \in Tokens, b \in Tokens}
    \cup {<<a, b, c>> : a \in Tokens, b \in Tokens, c \in Tokens}
    \cup {<<a, b, c, d>> : a \in Tokens, b \in Tokens, c \in Tokens, d \in Tokens}

TextCalls == {[fn |-> "text", text |-> t] : t \in Texts}

CallFromStr ==
    /\ arg.fn = "text" /\ ret = NoCall
    /\ ret' = [fn |-> "from_str", value |-> Package_from_str(arg.text)]
    /\ UNCHANGED <<repo, tree, ctl, run, faults, log, adapter, is_branch, arg>>

CallPrefix ==
    /\ arg.fn = "crate" /\ ret = NoCall
    /\ ret' = [fn |-> "prefix", value |-> prefix(arg.crate)]
    /\ UNCHANGED <<repo, tree, ctl, run, faults, log, adapter, is_branch, arg>>

CallLocate ==
    /\ arg.fn = "crate" /\ ret = NoCall
    /\ ret' = [fn |-> "locate", value |-> locate([ok |-> TRUE, template |-> arg.template],
                                                 arg.crate)]
    /\ UNCHANGED <<repo, tree, ctl, run, faults, log, adapter, is_branch, arg>>

\* Cache::locate_crate, the path that downloads write and removals delete
CallLocateCrate ==
    /\ arg.fn = "crate" /\ ret = NoCall
    /\ ret' = [fn |-> "locate_crate", value |-> locate_crate(arg.crate)]
    /\ UNCHANGED <<repo, tree, ctl, run, faults, log, adapter, is_branch, arg>>

\* Cache::update, ChangeKind::Removed: the directory the prune starts from,
\* and the test prune_directories makes before its loop
CallPruneStart ==
    /\ arg.fn = "crate" /\ ret = NoCall
    /\ LET from == Parent(locate_crate(arg.crate))
       IN  ret' = [fn |-> "prune_directories", from |-> from,
                   value |-> IF ~StartsWith(from, PruneUntil)
                             THEN "TraversalIsImpossible" ELSE "Ok"]
    /\ UNCHANGED <<repo, tree, ctl, run, faults, log, adapter, is_branch, arg>>

CallChanges ==
    /\ arg.fn = "delta" /\ ret = NoCall
    /\ \E r \in delta_changes(arg.status, arg.old, arg.new, DeltaPath) :
            ret' = [fn |-> "changes", value |-> r]
    /\ UNCHANGED <<repo, tree, ctl, run, faults, log, adapter, is_branch, arg>>

CallInit ==
    /\ head = "c0" /\ tracking = "c0" /\ remote = "c0"
    /\ dirs = NewCache /\ files = NoTasks
    /\ mode = None /\ jobs = 1
    /\ pc = "idle" /\ todo = {} /\ running = NoTasks /\ finished = {}
    /\ pending = NoPending /\ result = None /\ err = NoErr
    /\ runs = 0 /\ faults = 0
    /\ plan = {} /\ skipped = {} /\ fatal = NoErr /\ headAtStage = "c0" /\ failedIn = None
    /\ rerun = FALSE /\ retry = FALSE
    /\ filesAtStart = NoTasks /\ applyDirs = {} /\ applyFiles = NoTasks
    /\ lock = None /\ at = "idle" /\ configuration = NoConfiguration /\ urls = {}
    /\ is_branch = TRUE /\ arg \in CrateCalls \cup DeltaCalls \cup TextCalls /\ ret = NoCall

CallNext ==
    \/ CallPrefix
    \/ CallLocate
    \/ CallLocateCrate
    \/ CallPruneStart
    \/ CallFromStr
    \/ CallChanges

CallSpec == CallInit /\ [][CallNext]_vars

\* ------------------------------------------------------------- the claims
Synced == pc = "idle" /\ mode = "sync" /\ result = "ok"

Ended == pc = "idle" /\ result \in {"ok", "failed"}

SkippedKeys(ph) ==
    {[name |-> s.name, version |-> s.version] : s \in {t \in skipped : t.phase \in ph}}

\* C1: the local index pointer moves to the target only after every change of
\* the staged plan has been applied: while changes are applied the pointer is
\* where it was at staging, and once it has moved no change is unapplied or
\* in flight.
C1_CommitAfterAllChanges ==
    /\ pc = "apply" => head = headAtStage
    /\ (pc = "apply" /\ pending.changes # {}) => head # pending.target
    /\ head # headAtStage =>
          /\ todo = {} /\ DOMAIN running = {}
          /\ finished = plan
          /\ Synced

C1_Witness ==
    /\ Synced /\ head # headAtStage
    /\ Cardinality(plan) >= 3 /\ finished = plan
    /\ jobs >= 2

\* C2: when a sub-step of a change returns a non-recoverable error, the run
\* returns that error, no commit happens, the pointer is the one from before
\* the update, and the failing step leaves the artifact tree as it is.
C2_FatalErrorKeepsPointer ==
    [][fatal' # NoErr =>
          /\ pc' = "idle" /\ result' = "failed"
          /\ err'.kind = fatal'.kind /\ err'.source = fatal'.source
          /\ head' = headAtStage'
          /\ pending' = NoPending
          /\ fatal = NoErr => (dirs' = dirs /\ files' = files)]_vars

C2_Witness ==
    /\ Ended /\ result = "failed" /\ failedIn = "apply"
    /\ fatal # NoErr
    /\ finished # {}
    /\ files # applyFiles
    /\ head = headAtStage /\ remote # head

\* C3: a sync that repeats one that failed while applying changes, against
\* the same upstream and with a server that answers every crate of the
\* upstream snapshot correctly, ends with the pointer on the upstream and the
\* artifact tree holding exactly the crates of the upstream snapshot.
C3_RerunConverges ==
    (/\ Ended /\ mode = "sync" /\ rerun
     /\ fatal.source # "Transport"
     /\ \A c \in packages(remote) : key(c) \notin SkippedKeys({"refresh", "apply"}))
    => /\ result = "ok"
       /\ head = remote
       /\ \A c \in packages(remote) :
             /\ locate_crate(c) \in DOMAIN files
             /\ files[locate_crate(c)] = c.checksum
       /\ \A f \in DOMAIN files : \E c \in packages(remote) : f = locate_crate(c)

\* C4: a Removed change whose artifact file is absent when the change is
\* applied succeeds, whatever is left of its directories.
C4_RemovedAbsentSucceeds ==
    \A ch \in plan :
        (ch.kind = "Removed" /\ locate_crate(ch.on) \notin DOMAIN applyFiles)
        => ~(/\ fatal.kind = "PruneDirectories"
             /\ fatal.name = ch.on.name /\ fatal.version = ch.on.version)

C6_RemovedArtifactPruned ==
    Synced => \A ch \in plan :
        ch.kind = "Removed" =>
            /\ locate_crate(ch.on) \notin DOMAIN files
            /\ \A d \in Ancestors(locate_crate(ch.on)) :
                  d \notin dirs \/ ~IsEmptyDir(dirs, files, d)

C6_Witness ==
    /\ Synced
    /\ \E ch \in plan :
          /\ ch.kind = "Removed"
          /\ locate_crate(ch.on) \in DOMAIN applyFiles
          /\ Parent(locate_crate(ch.on)) \in applyDirs
          /\ \A d \in Ancestors(locate_crate(ch.on)) : d \notin dirs

\* C7: a download that ends in ChecksumMismatch or Http is never the error a
\* run returns, and a run in which no other error occurred ends successfully:
\* every item is finished and a sync has committed its pending update.
C7_RecoverableNeverFails ==
    /\ err.source \notin {"ChecksumMismatch", "Http"}
    /\ (Ended /\ fatal = NoErr) =>
          /\ result = "ok"
          /\ mode = "sync" => (finished = plan /\ head = tracking /\ pending = NoPending)

C7_Witness ==
    /\ Synced /\ head # headAtStage
    /\ \E a \in skipped, b \in skipped : a.phase = "refresh" /\ b.phase = "apply"
    /\ finished = plan /\ Cardinality(plan) >= 2

\* C8: a download error other than ChecksumMismatch and Http makes the run
\* fail with a CrateDownloadError that carries the crate's name and version;
\* it is the error returned, nothing is started after it and no commit
\* happens.
C8_FatalDownloadErrorFailsRun ==
    fatal.kind = "CrateDownload" =>
        /\ pc = "idle" /\ result = "failed"
        /\ err = fatal
        /\ todo = {} /\ DOMAIN running = {}
        /\ pending = NoPending
        /\ head = headAtStage

C8_Witness ==
    /\ fatal.kind = "CrateDownload" /\ fatal.source = "Transport"
    /\ failedIn = "apply"
    /\ finished # {} /\ finished # plan
    /\ remote # head

\* C9: at most `jobs` downloads or change applications are in flight.
C9_BoundedInFlight == Cardinality(DOMAIN running) <= jobs

C9_Witness ==
    /\ pc = "apply" /\ jobs >= 2
    /\ Cardinality(DOMAIN running) = jobs
    /\ todo # {}

\* C10: a run that applies its changes concurrently ends as the same changes
\* applied one after another: it succeeds exactly if they do, and then with
\* the same directories and files.
C10_InterleavingAsInTurn ==
    (/\ Ended /\ mode = "sync"
     /\ result = "ok" \/ failedIn = "apply"
     /\ fatal.source # "Transport")
    => LET st == ApplyInTurn([ok |-> TRUE, dirs |-> applyDirs, files |-> applyFiles],
                             plan, SkippedKeys({"apply"}))
       IN  /\ st.ok <=> result = "ok"
           /\ st.ok => (dirs = st.dirs /\ files = st.files)

\* the configuration of the snapshot of commit c, if it has one
SnapshotConfiguration(c) ==
    IF <<CONFIGURATION_FILENAME>> \in DOMAIN Blobs(c)
    THEN Configuration_from_slice(Blobs(c)[<<CONFIGURATION_FILENAME>>])
    ELSE NoConfiguration

\* C11: once an update is staged, the URLs of its Added and Modified changes
\* are expanded with the configuration of the pending upstream snapshot: the
\* configuration held while the changes are applied is the one of the target,
\* and the URLs requested are those its template gives.
C11_UrlsFromPendingConfiguration ==
    (at \in {"u_apply", "u_commit"} /\ SnapshotConfiguration(pending.target).ok) =>
        /\ configuration = SnapshotConfiguration(pending.target)
        /\ at = "u_commit" =>
              \A ch \in pending.changes :
                  ch.kind \in {"Added", "Modified"} =>
                      locate(SnapshotConfiguration(pending.target), ch.on) \in urls

\* C12: a delta of config.json between the local tip and the upstream tip is
\* filtered out before the diff engine runs: staging does not fail on
\* config.json, and the staged changes are those of the other deltas.
C12_ConfigurationDeltaFiltered ==
    /\ err.kind = "CorruptPackage" => err.source # <<CONFIGURATION_FILENAME>>
    /\ at \in {"u_config", "u_apply", "u_commit"} =>
          pending.changes =
              collected(head, pending.target,
                        {d \in blob_diff(head, pending.target) :
                            d.path # <<CONFIGURATION_FILENAME>>}).changes

\* C18: the repository mutex is held by at most one operation, the one the
\* run is awaiting; it is free whenever the run is not inside a repository
\* operation, in particular while downloads and change applications run.
C18_RepositoryLockExclusive ==
    /\ lock # None => lock = OpAt(at)
    /\ at \in {"idle", "r_downloads", "u_apply"} => lock = None

C18_Witness ==
    /\ at = "u_apply" /\ lock = None
    /\ pending.changes # {}
    /\ tracking # head

\* the downloads in flight that are past the preservation check
Requesting == {i \in DOMAIN running : running[i].pc \in {"d_get", "d_mkdir", "d_rename"}}

Cached(fs, c) == locate_crate(c) \in DOMAIN fs

Valid(fs, c) == Cached(fs, c) /\ fs[locate_crate(c)] = c.checksum

\* C13: under preservation Always (sync) a download whose destination exists
\* makes no request and leaves the file alone: no download past the check
\* has a file at its destination, the refresh keeps every file it found,
\* and a successful sync whose upstream is unchanged and whose crates were
\* all cached ends with the files and directories it started with, having
\* skipped nothing.
C13_KeptWithoutRequest ==
    /\ mode = "sync" => \A i \in Requesting : ~Cached(files, i.on)
    /\ (mode = "sync" /\ pc \in {"refresh", "stage"}) =>
          \A f \in DOMAIN filesAtStart :
              f \in DOMAIN files /\ files[f] = filesAtStart[f]
    /\ (mode = "sync" /\ pc = "refresh"
        /\ \A c \in packages(head) : Cached(filesAtStart, c)) => Requesting = {}
    /\ (Synced /\ plan = {} /\ \A c \in packages(head) : Cached(filesAtStart, c)) =>
          /\ files = filesAtStart
          /\ dirs = applyDirs
          /\ skipped = {} /\ fatal = NoErr

C13_Witness ==
    /\ Synced /\ plan = {} /\ runs = 2
    /\ head = "c1" /\ remote = head
    /\ \A c \in packages(head) : Cached(filesAtStart, c)
    /\ files = filesAtStart

\* C14: verify (preservation Checksum) makes no request for an artifact
\* whose digest is its crate's checksum and leaves it as it is; an artifact
\* of the current snapshot that is missing or differs is requested, so that
\* after a successful verify it is valid unless its download was skipped.
C14_VerifyRefetchesInvalid ==
    mode = "verify" =>
        /\ \A i \in Requesting : ~Valid(files, i.on)
        /\ \A c \in packages(head) : Valid(filesAtStart, c) => Valid(files, c)
        /\ (Ended /\ result = "ok") =>
              \A c \in packages(head) :
                  Valid(files, c) \/ key(c) \in SkippedKeys({"refresh"})

C14_Witness ==
    /\ Ended /\ mode = "verify" /\ result = "ok"
    /\ \E c \in packages(head) :
          /\ Cached(filesAtStart, c) /\ ~Valid(filesAtStart, c)
          /\ Valid(files, c)
    /\ \E c \in packages(head) : Valid(filesAtStart, c)

\* C15: a download never installs a file whose digest differs from the
\* checksum: a file appears or changes only by the rename of a download, and
\* then holds the checksum of its crate; a download that ends in
\* ChecksumMismatch or Http leaves every file and directory as it was.
C15_OnlyVerifiedInstalled ==
    [][/\ \A f \in DOMAIN files' :
              (f \notin DOMAIN files \/ files'[f] # files[f]) =>
                  \E i \in DOMAIN running :
                      /\ running[i].pc = "d_rename"
                      /\ f = locate_crate(i.on)
                      /\ files'[f] = i.on.checksum
       /\ skipped' # skipped => (files' = files /\ dirs' = dirs)]_vars

C15_Witness ==
    /\ \E s \in skipped : s.phase = "apply"
    /\ \E f \in DOMAIN files : f \notin DOMAIN applyFiles
    /\ pc = "apply"

\* C16 as stated: every file under crates/ is named download and its digest
\* is the checksum the current local snapshot records for its (name, version).
C16_FilesOfLocalSnapshot ==
    \A f \in DOMAIN files :
        /\ f[Len(f)] = "download"
        /\ \E c \in packages(head) : f = locate_crate(c) /\ files[f] = c.checksum

\* the snapshots of the fetched history: up to the remote-tracking tip
Fetched == {c \in Commits : c = tracking \/ tracking \in Later(c)}

\* C16 as amended: every file under crates/ is named download, lies at the
\* path of a (name, version), and its digest is the checksum that some
\* snapshot of the fetched history records for that (name, version).
C16_FilesOfFetchedSnapshots ==
    \A f \in DOMAIN files :
        /\ f[Len(f)] = "download"
        /\ StartsWith(f, crates_path)
        /\ \E t \in Fetched : \E c \in packages(t) :
              f = locate_crate(c) /\ files[f] = c.checksum

C16_Witness ==
    /\ Ended /\ result = "failed" /\ failedIn = "apply"
    /\ \E f \in DOMAIN files : \A c \in packages(head) : f # locate_crate(c)
    /\ \E c \in packages(head) : Cached(files, c) /\ ~Valid(files, c)

\* C17: the local branch tip changes only by the commit of the pending
\* update, after its changes are applied, and then becomes the commit that
\* staging fetched and recorded as the target.
C17_OnlyCommitMovesTip ==
    [][head' # head =>
          /\ pc = "apply" /\ AllApplied
          /\ head' = pending.target
          /\ head' = tracking
          /\ pc' = "idle" /\ result' = "ok"]_vars

C17_Witness ==
    /\ Synced /\ head = "c2" /\ headAtStage = "c1"
    /\ runs = 2

\* the items of a refresh of the snapshot at commit c
RefreshItems(c) == {NewChange(x, "Refresh") : x \in packages(c)}

\* C19: a sync finishes its refresh before its update starts: nothing is
\* fetched or staged outside the staging step, staging starts with every
\* refresh download returned, and a failed refresh stages nothing and
\* leaves the pointer and the remote-tracking branch where they were.
C19_RefreshBeforeUpdate ==
    [][/\ (tracking' # tracking \/ (pending' # pending /\ pending' # NoPending)) =>
              pc = "stage"
       /\ pc' = "stage" =>
              /\ todo' = {} /\ running' = NoTasks
              /\ finished' = RefreshItems(head')
       /\ pc' = "refresh" =>
              (todo' \cup DOMAIN running' \cup finished') \subseteq RefreshItems(head')
       /\ failedIn' = "refresh" =>
              /\ plan' = {} /\ pending' = NoPending
              /\ head' = headAtStage' /\ tracking' = tracking]_vars

C19_Witness ==
    /\ pc = "apply" /\ mode = "sync" /\ jobs >= 2
    /\ Cardinality(DOMAIN running) = 2
    /\ \E s \in skipped : s.phase = "refresh"

\* C20: after new the index directory exists and crates/ does not; crates/
\* comes into being only by a download that has fetched and verified its
\* body, never by a refresh start, staging or commit.
C20_CratesCreatedByDownload ==
    /\ (runs = 0 => (index_path \in dirs /\ crates_path \notin dirs))
    /\ [][(crates_path \notin dirs /\ crates_path \in dirs') =>
              \E i \in DOMAIN running :
                  /\ running[i].pc = "d_mkdir"
                  /\ running[i].from = i.on.checksum]_vars

C20_Witness ==
    /\ runs = 1 /\ pc = "refresh"
    /\ crates_path \in dirs /\ index_path \in dirs
    /\ Cardinality(DOMAIN files) = 1

\* the five markers of a download template, and what each stands for
Markers == {"{crate}", "{version}", "{prefix}", "{lowerprefix}", "{sha256-checksum}"}

MarkerValue(m, c) ==
    CASE m = "{crate}" -> c.name
      [] m = "{version}" -> c.version
      [] m = "{prefix}" -> prefix(c).value
      [] m = "{lowerprefix}" -> to_lowercase(prefix(c).value)
      [] OTHER -> hex_encode(c.checksum)

HasMarker(t) == \E m \in Markers : \E n \in 1..Len(t) : MatchAt(t, m, n)

DefaultPath(t, c) == t \o "/" \o c.name \o "/" \o c.version \o "/download"

\* the template read once from left to right, each marker met giving way to
\* its value, the values not read again
RECURSIVE one_pass(_, _, _)
one_pass(t, c, n) ==
    IF n > Len(t) THEN ""
    ELSE LET ms == {m \in Markers : MatchAt(t, m, n)}
         IN  IF ms = {} THEN SubSeq(t, n, n) \o one_pass(t, c, n + 1)
             ELSE LET m == CHOOSE x \in ms : TRUE
                  IN  MarkerValue(m, c) \o one_pass(t, c, n + Len(m))

\* C21: on every non-empty name Crate::prefix returns, and what it returns is
\* "1" for a name of one char, "2" for two, "3/" and the first char for
\* three, and the first two chars, "/", the third and fourth for four or
\* more, the chars taken as they are written (case kept).
C21_PrefixByLength ==
    (ret.fn = "prefix" /\ arg.crate.name # "") =>
        LET name == arg.crate.name
        IN  /\ ret.value.ok
            /\ ret.value.value =
                  CASE Len(name) = 1 -> "1"
                    [] Len(name) = 2 -> "2"
                    [] Len(name) = 3 -> "3/" \o SubSeq(name, 1, 1)
                    [] OTHER -> SubSeq(name, 1, 2) \o "/" \o SubSeq(name, 3, 4)

C21_Witness ==
    /\ ret.fn = "prefix" /\ arg.crate.name = "Abcde"
    /\ ret.value = [ok |-> TRUE, value |-> "Ab/cd"]

\* C22: Configuration::locate appends "/<name>/<version>/download" to the
\* template exactly when the template holds none of the five markers; with
\* a marker in the template the URL is the substituted template and nothing
\* is appended, whatever the name and the version of the crate.
C22_DefaultPathIffNoMarker ==
    (ret.fn = "locate" /\ arg.crate.name # "") =>
        ret.value = Url_parse(IF HasMarker(arg.template)
                              THEN templated([template |-> arg.template], arg.crate)
                              ELSE DefaultPath(arg.template, arg.crate))

\* C30: Configuration::locate substitutes the markers in one pass over the
\* template: a marker that only comes with the name, the version or the
\* prefix put in for another marker is not substituted.
C30_SubstitutedInOnePass ==
    (/\ ret.fn = "locate" /\ arg.crate.name # ""
     /\ HasMarker(arg.template)
     /\ ret.value # Url_parse(DefaultPath(arg.template, arg.crate))) =>
        ret.value = Url_parse(one_pass(arg.template, arg.crate, 1))

\* C23: Index::packages returns exactly the packages of the files that lie,
\* at any depth, under the directories of the root of the tree at the local
\* head whose name does not start with '.'; root entries that are hidden or
\* are not directories contribute nothing.
C23_PackagesOfVisibleDirectories ==
    (ret.fn = "packages" /\ at = "r_downloads") =>
        LET t == Blobs(head)
            under == {p \in DOMAIN t : Len(p) >= 2 /\ SubSeq(p[1], 1, 1) # "."}
        IN  /\ ret.value.error = NoErr
            /\ ret.value.packages = {Package_from_slice(t[p]).crates : p \in under}

C23_Witness ==
    /\ ret.fn = "packages" /\ at = "r_downloads" /\ head = "k1"
    /\ <<".github", "h">> \in DOMAIN Blobs(head)
    /\ <<".gitignore">> \in DOMAIN Blobs(head)
    /\ ret.value.packages = {{NewCrate("a", "1", "y"), NewCrate("a", "2", "x")}}

\* C24: Index::update on a repository whose HEAD is not a branch fails with
\* UnexpectedIndexState before anything is fetched: there is no
\* PendingUpdate, and the remote-tracking branch, the local tip and the
\* artifact tree are as they were.
C24_DetachedHeadRefused ==
    [][(lock = "update" /\ lock' # "update" /\ ~is_branch) =>
          /\ result' = "failed" /\ err' = UnexpectedIndexState
          /\ pending' = NoPending /\ at' = "idle"
          /\ tracking' = tracking /\ head' = head
          /\ dirs' = dirs /\ files' = files /\ urls' = urls]_vars

C24_Witness ==
    /\ ~is_branch /\ result = "failed" /\ err = UnexpectedIndexState
    /\ remote # tracking /\ tracking = head /\ pending = NoPending

\* the changes of one kind that a call returned for a key
ChangesOn(k, kind) ==
    {n \in DOMAIN ret.value.changes :
        ret.value.changes[n].kind = kind /\ key(ret.value.changes[n].on) = k}

\* every key is listed once
UniqueKeys(P) == \A c \in P : \A d \in P : key(c) = key(d) => c = d

C26_AddedDeletedAndOtherDeltas ==
    ret.fn = "changes" =>
        LET PerCrate(blob, kind) ==
                Package_from_slice(blob).ok =>
                    /\ ret.value.error = NoErr
                    /\ Len(ret.value.changes) = Cardinality(Package_from_slice(blob).crates)
                    /\ \A c \in Package_from_slice(blob).crates :
                          \E n \in DOMAIN ret.value.changes :
                              ret.value.changes[n] = NewChange(c, kind)
        IN  /\ arg.status = "Added" => PerCrate(arg.new, "Added")
            /\ arg.status = "Deleted" => PerCrate(arg.old, "Removed")
            /\ arg.status \notin {"Added", "Deleted", "Modified"} =>
                  ret.value = [error |-> NoErr, changes |-> <<>>]

C26_Witness ==
    /\ ret.fn = "changes" /\ arg.status = "Added"
    /\ arg.new = <<CrateLine("a", "1", "x"), CrateLine("a", "2", "x")>>
    /\ Len(ret.value.changes) = 2
    /\ \A n \in DOMAIN ret.value.changes : ret.value.changes[n].kind = "Added"

\* C29: for every crate name and version that the index can contain, the
\* directory the prune of a Removed change starts from lies under the cache
\* root, so the prune never returns TraversalIsImpossible.
C29_PruneStartsUnderCacheRoot ==
    ret.fn = "prune_directories" =>
        /\ ret.value = "Ok"
        /\ ~Absolute(ret.from)

\* C27: a Modified change removes the artifact that is there before its
\* download starts, goes on to the download when there is none, and when
\* the download has succeeded the file holds the new checksum, although
\* update downloads with preservation Always.
C27_ModifiedReplacesArtifact ==
    [][\A i \in Items : i.kind = "Modified" =>
          LET dest == locate_crate(i.on)
              was == IF i \in DOMAIN running THEN running[i].pc ELSE None
              now == IF i \in DOMAIN running' THEN running'[i].pc ELSE None
              logged == [phase |-> "apply", name |-> i.on.name, version |-> i.on.version]
          IN  /\ (now = "d_check" /\ was # "d_check") =>
                    /\ was \in {"meta", "unlink"}
                    /\ dest \notin DOMAIN files'
              /\ (was = "meta" /\ now # "meta" /\ dest \notin DOMAIN files) =>
                    \/ now = "d_check"
                    \/ now = None /\ result' = "failed" /\ err'.kind # "Io"
              /\ (i \in finished' \ finished /\ logged \notin skipped') =>
                    /\ dest \in DOMAIN files'
                    /\ files'[dest] = i.on.checksum]_vars

C27_Witness ==
    /\ pc = "apply" /\ mode = "sync"
    /\ \E i \in finished :
          /\ i.kind = "Modified"
          /\ locate_crate(i.on) \in DOMAIN applyFiles
          /\ applyFiles[locate_crate(i.on)] # i.on.checksum
          /\ locate_crate(i.on) \in DOMAIN files
          /\ files[locate_crate(i.on)] = i.on.checksum

\* C28: prune_directories removes only directories that lie on the way from
\* the directory it starts from up to `until` and that are empty: it never
\* removes `until`, a directory that holds something, the index directory
\* or a directory beside the way, and it removes no file.
C28_PruneRemovesOnlyEmptyOnPath ==
    [][(dirs' # dirs /\ ~(dirs \subseteq dirs')) =>
          \E i \in DOMAIN running :
              /\ i.kind = "Removed"
              /\ running[i].pc = "p_rm"
              /\ dirs' = dirs \ {running[i].from}
              /\ files' = files
              /\ LET d == running[i].from
                     start == Parent(locate_crate(i.on))
                 IN  /\ d # PruneUntil /\ d # index_path
                     /\ Len(d) <= Len(start) /\ SubSeq(start, 1, Len(d)) = d
                     /\ \A e \in dirs \cup DOMAIN files :
                           e # d => ~(Len(d) <= Len(e) /\ SubSeq(e, 1, Len(d)) = d)]_vars

C28_Witness ==
    /\ pc = "apply"
    /\ crates_path \in applyDirs /\ crates_path \in dirs
    /\ \E i \in finished :
          /\ i.kind = "Removed"
          /\ Parent(locate_crate(i.on)) \notin dirs
          /\ Parent(Parent(locate_crate(i.on))) \in dirs
          /\ index_path \in dirs

\* C31: Package::from_str maps the empty file and every file of nothing but
\* spaces and line feeds to the empty crate set, and a file of valid records
\* that ends with one line feed to the same set as the file without it.
C31_BlankFilesAndTrailingNewline ==
    ret.fn = "from_str" =>
        /\ (\A n \in DOMAIN arg.text : arg.text[n] \in {Space, Newline}) =>
              ret.value = [ok |-> TRUE, crates |-> {}]
        /\ (/\ arg.text # <<>>
            /\ arg.text[Len(arg.text)] = Newline
            /\ Package_from_str(SubSeq(arg.text, 1, Len(arg.text) - 1)).ok) =>
              ret.value = Package_from_str(SubSeq(arg.text, 1, Len(arg.text) - 1))

\* the blobs of a delta that the diff engine reads
DeltaBlobs(old, new, d) ==
    (IF d.status = "Added" THEN {} ELSE {Blobs(old)[d.path]})
    \cup (IF d.status = "Deleted" THEN {} ELSE {Blobs(new)[d.path]})

\* the changed files between two commits with a blob that is no Package
CorruptFiles(old, new) ==
    {d.path : d \in {e \in blob_diff(old, new) :
                        \E b \in DeltaBlobs(old, new, e) : ~Package_from_slice(b).ok}}

\* C32: staging is all-or-nothing: when a blob of a changed file does not
\* parse as a Package, Index::update returns CorruptPackage with the path of
\* such a file and no PendingUpdate, so that no change of the other files
\* is applied, no artifact is touched and the local tip stays.
C32_StagingAllOrNothing ==
    [][(/\ lock = "update" /\ lock' # "update" /\ is_branch
        /\ CorruptFiles(head, remote) # {}) =>
          /\ result' = "failed" /\ at' = "idle"
          /\ err'.kind = "CorruptPackage"
          /\ err'.source \in CorruptFiles(head, remote)
          /\ pending' = NoPending
          /\ head' = head /\ urls' = urls /\ dirs' = dirs /\ files' = files]_vars

C32_Witness ==
    /\ result = "failed" /\ at = "idle"
    /\ err = CorruptPackageError(<<"1", "d">>)
    /\ head = "k4" /\ remote = "k5" /\ tracking = "k5"
    /\ pending = NoPending

AppliedTo(crates, changes) ==
    {c \in crates : \A ch \in changes : key(ch.on) # key(c)}
    \cup {ch.on : ch \in {x \in changes : x.kind \in {"Added", "Modified"}}}

\* the paths Index::packages reads: below a root directory that is not hidden
Enumerated(path) == Len(path) >= 2 /\ SubSeq(path[1], 1, 1) # "."

\* C34: the changes staged between two snapshots, applied by key to the
\* crates Index::packages enumerates on the old one, give the crates it
\* enumerates on the new one; a file that packages() ignores (under a hidden
\* directory, or at the root) yields no change and no staging error.
C34_PlanRefinesPackages ==
    /\ (at \in {"u_config", "u_apply", "u_commit"}) =>
          AppliedTo(IndexPackages(head).crates, pending.changes)
              = IndexPackages(pending.target).crates
    /\ (at = "idle" /\ err.kind = "CorruptPackage") => Enumerated(err.source)

\* C35: the changes staged for a file hold at most one Change for a (name,
\* version) key, also when the package file lists a key twice, so that no
\* two change applications of an update work on the same artifact path.
C35_OneChangePerKey ==
    ret.fn = "changes" =>
        \A m \in DOMAIN ret.value.changes : \A n \in DOMAIN ret.value.changes :
            key(ret.value.changes[m].on) = key(ret.value.changes[n].on) => m = n

\* C36: for a Modified package file no key of the new package is emitted as
\* a Removed change, also when the old package lists the key more than once
\* with different checksums.
C36_NoRemovedForKeptKey ==
    (/\ ret.fn = "changes" /\ arg.status = "Modified"
     /\ ret.value.error = NoErr) =>
        \A n \in DOMAIN ret.value.changes :
            ret.value.changes[n].kind = "Removed" =>
                \A c \in Package_from_slice(arg.new).crates :
                    key(c) # key(ret.value.changes[n].on)

\* C37: with more than one worker, the prune of a Removed change never
\* fails on a directory that another worker has just removed or just
\* filled (the only directory read_dir may miss is the one the prune starts
\* from, when the artifact was never installed), and a download about to
\* rename still has the parent directory it created.
C37_PruneNotDisturbed ==
    /\ [][\A i \in Items :
            (/\ pc = "apply" /\ i \in DOMAIN running
             /\ running[i].pc \in {"p_read", "p_rm"}
             /\ result' = "failed"
             /\ err' = PruneError(err'.source, i.on)) =>
                /\ running[i].pc = "p_read"
                /\ running[i].from = Parent(locate_crate(i.on))
                /\ err'.source = "NotFound"]_vars
    /\ [](\A i \in DOMAIN running :
            running[i].pc = "d_rename" => Parent(locate_crate(i.on)) \in dirs)

\* C38: for every crate name and version that parses from the index, also
\* with '/', ".." or a leading '/', locate_crate(c) is a path strictly below
\* <cache>/crates that does not step out of it.
C38_LocateCrateInsideCrates ==
    ret.fn = "locate_crate" =>
        /\ StartsWith(ret.value, crates_path)
        /\ ret.value # crates_path
        /\ \A n \in DOMAIN ret.value : ret.value[n] # ".."

\* C39: an update staged while the upstream tip is the local tip has an
\* empty plan and moves neither pointer; while it is applied no future runs,
\* no request is out and no file or directory differs from the ones at its
\* start; it ends in a commit that leaves the local tip, the remote-tracking
\* tip, the files and the directories as they were, which makes a repetition
\* start from the same state.
C39_NoOpUpdate ==
    /\ [][(pc = "stage" /\ pc' = "apply" /\ remote = head) =>
            /\ plan' = {} /\ todo' = {}
            /\ pending' = [target |-> head, changes |-> {}]
            /\ <<head, tracking, dirs, files>>' = <<head, tracking, dirs, files>>]_vars
    /\ []((pc = "apply" /\ pending.target = headAtStage) =>
            /\ running = NoTasks /\ Requesting = {}
            /\ dirs = applyDirs /\ files = applyFiles)
    /\ [][(pc = "apply" /\ pending.target = headAtStage /\ pc' # "apply") =>
            /\ pc' = "idle" /\ result' = "ok"
            /\ <<head, tracking, dirs, files>>' = <<head, tracking, dirs, files>>]_vars

\* the second run found the upstream where the first run had left the local tip
C39_Witness ==
    /\ Synced /\ runs = 2
    /\ head = "c1" /\ remote = "c1" /\ headAtStage = "c1"
    /\ plan = {}
    /\ files # NoTasks

\* C40: the refresh of a run requests every crate a download was staged for
\* by the update that moved the local tip to where it is (a download which
\* that update may have logged and skipped), so that the artifact is fetched
\* once the server answers.
C40_SkippedRequestedAgain ==
    (at = "u_update" /\ head # headAtStage) =>
        \A ch \in plan :
            ch.kind \in {"Added", "Modified"} => locate(configuration, ch.on) \in urls

====
